---- MODULE Spec2Model ----
(***************************************************************************)
(* Model of the security MCP server: the module contract and the module    *)
(* registry (core/module_base.py), the JSON-RPC protocol handler and the   *)
(* stdio transport loop (core/server.py).                                  *)
(*                                                                         *)
(* Python values are modelled as follows.  A string built by an f-string   *)
(* is a record naming the format and the values interpolated into it.  A   *)
(* call that may raise returns a record with a `raised` flag.  An Optional *)
(* reference to an element of a list is the element's position, 0 for      *)
(* None.  The abstract methods of a module (_check_dependencies,           *)
(* _register_tools, execute_tool) are the environment: every call's        *)
(* outcome is an input of the action that makes the call.                  *)
(***************************************************************************)
EXTENDS Integers, Sequences, FiniteSets, TLC

\* ---------------------------------------------------------------- bounds
\* Number of input lines the transport loop reads before the stream ends.
MaxLines == 2

\* ------------------------------------------------------------ value sets
None == "None"

ModuleNames == {"nuclei", "shodan"}
ToolNames == {"ping", "scan"}
\* A name no module registers.
UnknownTool == "nosuch"

\* Tool dataclass (name, description, inputSchema).
Tool(n, d) == [name |-> n, description |-> d, inputSchema |-> "object"]

\* The tools each module class defines in its _register_tools.
ToolsOf(name) ==
    IF name = "nuclei" THEN << Tool("ping", "nuclei ping") >>
    ELSE << Tool("scan", "shodan scan"), Tool("ping", "shodan ping") >>

\* What a module's _register_tools may do: return its list of tools or raise.
RegisterOutcomes(name) ==
    { [raises |-> TRUE, tools |-> <<>>],
      [raises |-> FALSE, tools |-> ToolsOf(name)] }

\* What one call of _check_dependencies may do: return True, False, or raise.
ProbeOutcomes == {"true", "false", "raise"}

\* What one call of a module's execute_tool may do: return a string or raise.
ExecOutcomes ==
    { [raises |-> FALSE, text |-> "scan report"],
      [raises |-> FALSE, text |-> "unknown tool"],
      [raises |-> TRUE, text |-> None] }

\* --------------------------------------------------------------- strings
\* The strings the code builds; `fmt` names the f-string, the other fields
\* are the interpolated values.
Text(fmt, tool, module, body) ==
    [fmt |-> fmt, tool |-> tool, module |-> module, body |-> body]

PlainText(s) == Text("plain", None, None, s)
ModuleNotAvailable(m) == Text("module_not_available", None, m, None)
ToolNotInModule(t, m) == Text("tool_not_found_in_module", t, m, None)
ErrorExecuting(t, m, e) == Text("error_executing", t, m, e)
ToolNotFoundAnywhere(t) == Text("tool_not_found_in_any_enabled_module", t, None, None)

\* ------------------------------------------------ SecurityModuleBase
\* __init__ followed by _initialize.  cfg is the ModuleConfig; probe is the
\* outcome of the construction-time _check_dependencies ("true"/"false": a
\* raising probe makes the constructor raise and no module exists); reg is
\* the outcome of _register_tools.
ModuleInitRegistersFirst(cfg, probe, reg) ==
    IF reg.raises
    THEN [name |-> cfg.name, enabled |-> FALSE, tools |-> <<>>]
    ELSE IF probe = "false"
         THEN [name |-> cfg.name, enabled |-> FALSE, tools |-> reg.tools]
         ELSE [name |-> cfg.name, enabled |-> cfg.enabled, tools |-> reg.tools]

ModuleInit(cfg, probe, reg) ==
    IF probe = "false"
    THEN [name |-> cfg.name, enabled |-> FALSE, tools |-> <<>>]
    ELSE IF reg.raises
         THEN [name |-> cfg.name, enabled |-> FALSE, tools |-> <<>>]
         ELSE [name |-> cfg.name, enabled |-> cfg.enabled, tools |-> reg.tools]

initialize_calls_registers_first(cfg, probe, reg) ==
    <<"_register_tools", "_check_dependencies">>

\* The abstract methods _initialize calls, in order: the dependency check,
\* then _register_tools unless the check returned False (early return) or
\* raised.
initialize_calls(cfg, probe, reg) ==
    IF probe = "true"
    THEN <<"_check_dependencies", "_register_tools">>
    ELSE <<"_check_dependencies">>

get_tools(m) == IF ~m.enabled THEN <<>> ELSE m.tools

\* enabled and _check_dependencies(): the probe is called only when enabled.
is_available(m, probe) ==
    IF ~m.enabled THEN [raised |-> FALSE, value |-> FALSE]
    ELSE IF probe = "raise" THEN [raised |-> TRUE, value |-> FALSE]
    ELSE [raised |-> FALSE, value |-> (probe = "true")]

get_tool_enabled_only(m, tool_name) ==
    LET hits == { i \in 1..Len(m.tools) : m.tools[i].name = tool_name }
    IN IF ~m.enabled \/ hits = {} THEN 0
       ELSE CHOOSE i \in hits : \A j \in hits : i <= j

\* Position of the first tool named tool_name in the module's list, 0 for None.
get_tool(m, tool_name) ==
    LET hits == { i \in 1..Len(m.tools) : m.tools[i].name = tool_name }
    IN IF hits = {} THEN 0 ELSE CHOOSE i \in hits : \A j \in hits : i <= j

has_tool_first_only(m, tool_name) ==
    Len(m.tools) > 0 /\ m.tools[1].name = tool_name

has_tool(m, tool_name) == get_tool(m, tool_name) # 0

safe_execute_tool_propagating(m, tool_name, probe, exec) ==
    LET avail == is_available(m, probe)
    IN IF avail.raised
       THEN [raised |-> TRUE, text |-> PlainText("dependency probe fault"),
             executed |-> <<>>]
       ELSE IF ~avail.value
       THEN [raised |-> FALSE, text |-> ModuleNotAvailable(m.name), executed |-> <<>>]
       ELSE IF ~has_tool(m, tool_name)
       THEN [raised |-> FALSE, text |-> ToolNotInModule(tool_name, m.name),
             executed |-> <<>>]
       ELSE IF exec.raises
       THEN [raised |-> TRUE, text |-> PlainText("execution fault"),
             executed |-> << [module |-> m.name, tool |-> tool_name] >>]
       ELSE [raised |-> FALSE, text |-> PlainText(exec.text),
             executed |-> << [module |-> m.name, tool |-> tool_name] >>]

\* The whole body is inside try/except Exception: a fault of the probe or of
\* execute_tool becomes the "Error executing" string.  `executed` lists the
\* execute_tool invocations made.
safe_execute_tool(m, tool_name, probe, exec) ==
    LET avail == is_available(m, probe)
    IN IF avail.raised
       THEN [raised |-> FALSE,
             text |-> ErrorExecuting(tool_name, m.name, "dependency probe fault"),
             executed |-> <<>>]
       ELSE IF ~avail.value
       THEN [raised |-> FALSE, text |-> ModuleNotAvailable(m.name), executed |-> <<>>]
       ELSE IF ~has_tool(m, tool_name)
       THEN [raised |-> FALSE, text |-> ToolNotInModule(tool_name, m.name),
             executed |-> <<>>]
       ELSE IF exec.raises
       THEN [raised |-> FALSE,
             text |-> ErrorExecuting(tool_name, m.name, "execution fault"),
             executed |-> << [module |-> m.name, tool |-> tool_name] >>]
       ELSE [raised |-> FALSE, text |-> PlainText(exec.text),
             executed |-> << [module |-> m.name, tool |-> tool_name] >>]

\* get_status: is_available() probes first (when enabled), then
\* dependencies_met probes again; either call may raise.
module_get_status(m, probe1, probe2) ==
    LET avail == is_available(m, probe1)
    IN IF avail.raised \/ probe2 = "raise"
       THEN [raised |-> TRUE, value |-> None]
       ELSE [raised |-> FALSE,
             value |-> [name |-> m.name,
                        enabled |-> m.enabled,
                        available |-> avail.value,
                        tools_count |-> Len(m.tools),
                        tools |-> [i \in 1..Len(m.tools) |-> m.tools[i].name],
                        dependencies_met |-> (probe2 = "true")]]

\* ------------------------------------------------------ ModuleRegistry
\* self.modules is a dict in insertion order: a sequence of modules with
\* pairwise different names.
PositionOf(mods, name) ==
    LET hits == { i \in 1..Len(mods) : mods[i].name = name }
    IN IF hits = {} THEN 0 ELSE CHOOSE i \in hits : TRUE

register_module_keeps_first(mods, m) ==
    IF PositionOf(mods, m.name) # 0 THEN mods ELSE Append(mods, m)

\* self.modules[module.name] = module: overwrite in place or append.
register_module(mods, m) ==
    IF PositionOf(mods, m.name) # 0
    THEN [mods EXCEPT ![PositionOf(mods, m.name)] = m]
    ELSE Append(mods, m)

get_module(mods, name) == PositionOf(mods, name)

\* Positions, in enumeration order, of the modules whose enabled flag is set.
RECURSIVE EnabledFrom(_, _)
EnabledFrom(mods, i) ==
    IF i > Len(mods) THEN <<>>
    ELSE IF mods[i].enabled THEN <<i>> \o EnabledFrom(mods, i + 1)
    ELSE EnabledFrom(mods, i + 1)

get_enabled_modules(mods) == EnabledFrom(mods, 1)

RECURSIVE ExtendTools(_, _, _)
ExtendTools(mods, en, k) ==
    IF k > Len(en) THEN <<>>
    ELSE get_tools(mods[en[k]]) \o ExtendTools(mods, en, k + 1)

RECURSIVE ExtendAllTools(_, _)
ExtendAllTools(mods, i) ==
    IF i > Len(mods) THEN <<>>
    ELSE mods[i].tools \o ExtendAllTools(mods, i + 1)

get_all_tools_every_module(mods) == ExtendAllTools(mods, 1)

get_all_tools(mods) == ExtendTools(mods, get_enabled_modules(mods), 1)

RECURSIVE ScanForTool(_, _, _, _)
ScanForTool(mods, en, k, tool_name) ==
    IF k > Len(en) THEN 0
    ELSE IF has_tool(mods[en[k]], tool_name) THEN en[k]
    ELSE ScanForTool(mods, en, k + 1, tool_name)

find_tool_any_module(mods, tool_name) ==
    ScanForTool(mods, [i \in 1..Len(mods) |-> i], 1, tool_name)

find_tool_last_match(mods, tool_name) ==
    LET hits == { i \in 1..Len(mods) : mods[i].enabled /\ has_tool(mods[i], tool_name) }
    IN IF hits = {} THEN 0 ELSE CHOOSE i \in hits : \A j \in hits : j <= i

\* Position of the first enabled module that has the tool, 0 for None.
find_tool(mods, tool_name) ==
    ScanForTool(mods, get_enabled_modules(mods), 1, tool_name)

registry_execute_tool_unchecked(mods, tool_name, probe, exec) ==
    LET owner == find_tool(mods, tool_name)
    IN IF owner = 0
       THEN [raised |-> TRUE, text |-> PlainText("no owner"), owner |-> 0,
             safe_calls |-> 0, executed |-> <<>>]
       ELSE LET r == safe_execute_tool(mods[owner], tool_name, probe, exec)
            IN [raised |-> r.raised, text |-> r.text, owner |-> owner,
                safe_calls |-> 1, executed |-> r.executed]

\* execute_tool of the registry, once its arguments are bound.  safe_calls
\* counts the safe_execute_tool invocations.
registry_execute_tool(mods, tool_name, probe, exec) ==
    LET owner == find_tool(mods, tool_name)
    IN IF owner = 0
       THEN [raised |-> FALSE, text |-> ToolNotFoundAnywhere(tool_name), owner |-> 0,
             safe_calls |-> 0, executed |-> <<>>]
       ELSE LET r == safe_execute_tool(mods[owner], tool_name, probe, exec)
            IN [raised |-> r.raised, text |-> r.text, owner |-> owner,
                safe_calls |-> 1, executed |-> r.executed]

\* get_status of every module in enumeration order; probes[2i-1], probes[2i]
\* are the outcomes of the two probe calls module i may make.
RECURSIVE StatusesFrom(_, _, _)
StatusesFrom(mods, probes, i) ==
    IF i > Len(mods) THEN [raised |-> FALSE, value |-> <<>>]
    ELSE LET s == module_get_status(mods[i], probes[2 * i - 1], probes[2 * i])
         IN IF s.raised THEN [raised |-> TRUE, value |-> <<>>]
            ELSE LET rest == StatusesFrom(mods, probes, i + 1)
                 IN IF rest.raised THEN [raised |-> TRUE, value |-> <<>>]
                    ELSE [raised |-> FALSE, value |-> <<s.value>> \o rest.value]

registry_get_status(mods, probes) ==
    LET ss == StatusesFrom(mods, probes, 1)
    IN IF ss.raised THEN [raised |-> TRUE, value |-> None]
       ELSE [raised |-> FALSE,
             value |-> [total_modules |-> Len(mods),
                        enabled_modules |-> Len(get_enabled_modules(mods)),
                        total_tools |-> Len(get_all_tools(mods)),
                        modules |-> ss.value]]

\* ------------------------------------------------------- JSON messages
\* A parsed input line.  shape is the JSON type of the value; the other
\* fields are meaningful for an object.  method and id are None when the key
\* is absent.
Methods == {"initialize", "tools/list", "tools/call", "server/status"}
Ids == {None, "1"}
ArgKeys == {"target", "tool_name", "self"}

Arguments(shape, keys) == [shape |-> shape, keys |-> keys]
AbsentArguments == Arguments("absent", {})

Params(shape, name, arguments, clientInfo) ==
    [shape |-> shape, name |-> name, arguments |-> arguments, clientInfo |-> clientInfo]
AbsentParams == Params("absent", None, AbsentArguments, "absent")
NullParams == Params("null", None, AbsentArguments, "absent")
ArrayParams == Params("array", None, AbsentArguments, "absent")
\* The default of message.get("params", {}).
EmptyParams == Params("object", None, AbsentArguments, "absent")

Message(shape, method, id, params) ==
    [shape |-> shape, method |-> method, id |-> id, params |-> params]

\* clientInfo: key absent, null, a string, an object without / with a name.
ClientInfos == {"absent", "null", "string", "object", "object_named"}

ArgumentValues ==
    { AbsentArguments, Arguments("null", {}) }
    \cup { Arguments("object", ks) : ks \in {{"target"}, {"tool_name"}} }

\* name: key absent, the empty string, or a tool name.
NameValues == {None, ""} \cup ToolNames \cup {UnknownTool}

InitializeParams ==
    { AbsentParams, NullParams, EmptyParams }
    \cup { Params("object", None, AbsentArguments, ci) : ci \in ClientInfos }

\* Every name without arguments, and every arguments value with a name some
\* module registers and with a name none registers.
ToolsCallParams ==
    { AbsentParams, NullParams, ArrayParams }
    \cup { Params("object", n, AbsentArguments, "absent") : n \in NameValues }
    \cup { Params("object", n, a, "absent") : n \in {"ping", UnknownTool}, a \in ArgumentValues }

PlainParams == { AbsentParams, NullParams }

Messages ==
    { Message("object", "initialize", id, p) : id \in Ids, p \in InitializeParams }
    \cup { Message("object", "tools/call", id, p) : id \in Ids, p \in ToolsCallParams }
    \cup { Message("object", m, id, p) :
             m \in {"tools/list", "bogus/method", None}, id \in Ids, p \in PlainParams }
    \cup { Message("object", "server/status", id, AbsentParams) : id \in Ids }
    \cup { Message(s, None, None, AbsentParams) : s \in {"array", "null"} }

\* ------------------------------------------------------ SecurityMCPServer
ServerName == "security-mcp-server"
ServerVersion == "2.0.0"

ParseError == 0 - 32700
MethodNotFound == 0 - 32601
InvalidParams == 0 - 32602
InternalError == 0 - 32603

error_response_null_id(msg_id, code, message) ==
    [jsonrpc |-> "2.0", id |-> None, error |-> [code |-> code, message |-> message]]

error_response(msg_id, code, message) ==
    [jsonrpc |-> "2.0", id |-> msg_id, error |-> [code |-> code, message |-> message]]

ResultResponse(msg_id, result) ==
    [jsonrpc |-> "2.0", id |-> msg_id, result |-> result]

\* Outcome of a _handle_* coroutine: it raised `fault`, or returned `response`.
Raised(fault, init, executed) ==
    [raised |-> TRUE, fault |-> fault, response |-> None,
     initialized |-> init, executed |-> executed]
Returned(response, init, executed) ==
    [raised |-> FALSE, fault |-> None, response |-> response,
     initialized |-> init, executed |-> executed]

\* params.get(...) needs a mapping.
IsMapping(v) == v.shape = "object"

\* self.initialized = True comes first; params.get and client_info.get raise
\* AttributeError on a value that is not a mapping.
handle_initialize(initialized, msg_id, params) ==
    IF ~IsMapping(params) THEN Raised("AttributeError", TRUE, <<>>)
    ELSE IF params.clientInfo \in {"null", "string"}
    THEN Raised("AttributeError", TRUE, <<>>)
    ELSE Returned(ResultResponse(msg_id,
                      [protocolVersion |-> "2024-11-05",
                       capabilities |-> [tools |-> [listChanged |-> TRUE]],
                       serverInfo |-> [name |-> ServerName, version |-> ServerVersion]]),
                  TRUE, <<>>)

handle_tools_list(mods, initialized, msg_id) ==
    LET tools == get_all_tools(mods)
        tools_dict == [i \in 1..Len(tools) |->
                          [name |-> tools[i].name,
                           description |-> tools[i].description,
                           inputSchema |-> tools[i].inputSchema]]
    IN Returned(ResultResponse(msg_id, [tools |-> tools_dict]), initialized, <<>>)

\* registry.execute_tool(tool_name, **arguments): the call binds self and
\* tool_name positionally, so it raises TypeError when arguments is not a
\* mapping or has one of these names as a key.
BindsToExecuteTool(arguments) ==
    /\ IsMapping(arguments)
    /\ arguments.keys \cap {"tool_name", "self"} = {}

ContentEnvelope(msg_id, text) ==
    ResultResponse(msg_id, [content |-> << [type |-> "text", text |-> text] >>])

handle_tools_call_no_name_check(mods, initialized, msg_id, params, probe, exec) ==
    IF ~IsMapping(params) THEN Raised("AttributeError", initialized, <<>>)
    ELSE LET tool_name == params.name
             arguments == IF params.arguments.shape = "absent"
                          THEN Arguments("object", {}) ELSE params.arguments
         IN IF ~BindsToExecuteTool(arguments)
            THEN Raised("TypeError", initialized, <<>>)
            ELSE LET r == registry_execute_tool(mods,
                              IF tool_name \in {None, ""} THEN "ping" ELSE tool_name,
                              probe, exec)
                 IN IF r.raised THEN Raised("Exception", initialized, r.executed)
                    ELSE Returned(ContentEnvelope(msg_id, r.text), initialized, r.executed)

handle_tools_call(mods, initialized, msg_id, params, probe, exec) ==
    IF ~IsMapping(params) THEN Raised("AttributeError", initialized, <<>>)
    ELSE LET tool_name == params.name
             arguments == IF params.arguments.shape = "absent"
                          THEN Arguments("object", {}) ELSE params.arguments
         IN IF tool_name \in {None, ""}
            THEN Returned(error_response(msg_id, InvalidParams,
                              Text("missing_tool_name", None, None, None)),
                          initialized, <<>>)
            ELSE IF ~BindsToExecuteTool(arguments)
            THEN Raised("TypeError", initialized, <<>>)
            ELSE LET r == registry_execute_tool(mods, tool_name, probe, exec)
                 IN IF r.raised THEN Raised("Exception", initialized, r.executed)
                    ELSE Returned(ContentEnvelope(msg_id, r.text), initialized, r.executed)

\* The uptime is wall-clock time and is left out of the status.
handle_server_status(mods, srv, msg_id, probes) ==
    LET rs == registry_get_status(mods, probes)
    IN IF rs.raised THEN Raised("Exception", srv.initialized, <<>>)
       ELSE Returned(ResultResponse(msg_id,
                         [server |-> [name |-> ServerName,
                                      version |-> ServerVersion,
                                      requests_handled |-> srv.request_count,
                                      errors |-> srv.error_count],
                          modules |-> rs.value]),
                     srv.initialized, <<>>)

\* Outcome of handle_message: the new server fields, and either the response
\* returned or the fault that escaped to the caller.
Handled(escaped, response, init, requests, errors, executed) ==
    [escaped |-> escaped, response |-> response, initialized |-> init,
     request_count |-> requests, error_count |-> errors, executed |-> executed]

DispatchUnknownRaises(mods, srv, method, msg_id, params, probe, exec, probes) ==
    IF method = "initialize" THEN handle_initialize(srv.initialized, msg_id, params)
    ELSE IF method = "tools/list" THEN handle_tools_list(mods, srv.initialized, msg_id)
    ELSE IF method = "tools/call"
    THEN handle_tools_call(mods, srv.initialized, msg_id, params, probe, exec)
    ELSE IF method = "server/status" THEN handle_server_status(mods, srv, msg_id, probes)
    ELSE Raised("KeyError", srv.initialized, <<>>)

DispatchRequiresInitialize(mods, srv, method, msg_id, params, probe, exec, probes) ==
    IF method = "initialize" THEN handle_initialize(srv.initialized, msg_id, params)
    ELSE IF ~srv.initialized
    THEN Returned(error_response(msg_id, InvalidParams,
                      Text("not_initialized", None, None, method)),
                  srv.initialized, <<>>)
    ELSE IF method = "tools/list" THEN handle_tools_list(mods, srv.initialized, msg_id)
    ELSE IF method = "tools/call"
    THEN handle_tools_call(mods, srv.initialized, msg_id, params, probe, exec)
    ELSE IF method = "server/status" THEN handle_server_status(mods, srv, msg_id, probes)
    ELSE Returned(error_response(msg_id, MethodNotFound,
                      Text("method_not_found", None, None, method)),
                  srv.initialized, <<>>)

\* The if/elif chain of handle_message, inside its try block.
Dispatch(mods, srv, method, msg_id, params, probe, exec, probes) ==
    IF method = "initialize" THEN handle_initialize(srv.initialized, msg_id, params)
    ELSE IF method = "tools/list" THEN handle_tools_list(mods, srv.initialized, msg_id)
    ELSE IF method = "tools/call"
    THEN handle_tools_call(mods, srv.initialized, msg_id, params, probe, exec)
    ELSE IF method = "server/status" THEN handle_server_status(mods, srv, msg_id, probes)
    ELSE Returned(error_response(msg_id, MethodNotFound,
                      Text("method_not_found", None, None, method)),
                  srv.initialized, <<>>)

handle_message_counts_late(mods, srv, message, probe, exec, probes) ==
    IF message.shape # "object"
    THEN Handled(TRUE, None, srv.initialized, srv.request_count, srv.error_count, <<>>)
    ELSE LET params == IF message.params.shape = "absent"
                       THEN EmptyParams ELSE message.params
             h == Dispatch(mods, srv, message.method, message.id, params,
                           probe, exec, probes)
         IN IF h.raised
            THEN Handled(FALSE,
                         error_response(message.id, InternalError,
                             Text("internal_error", None, None, h.fault)),
                         h.initialized, srv.request_count + 1,
                         srv.error_count + 1, h.executed)
            ELSE Handled(FALSE, h.response, h.initialized,
                         srv.request_count + 1, srv.error_count, h.executed)

handle_message_counts_every_error(mods, srv, message, probe, exec, probes) ==
    LET counted == [srv EXCEPT !.request_count = @ + 1]
    IN IF message.shape # "object"
       THEN Handled(TRUE, None, srv.initialized, counted.request_count,
                    srv.error_count, <<>>)
       ELSE LET params == IF message.params.shape = "absent"
                          THEN EmptyParams ELSE message.params
                h == Dispatch(mods, counted, message.method, message.id, params,
                              probe, exec, probes)
            IN IF h.raised
               THEN Handled(FALSE,
                            error_response(message.id, InternalError,
                                Text("internal_error", None, None, h.fault)),
                            h.initialized, counted.request_count,
                            srv.error_count + 1, h.executed)
               ELSE Handled(FALSE, h.response, h.initialized,
                            counted.request_count,
                            IF "error" \in DOMAIN h.response
                            THEN srv.error_count + 1 ELSE srv.error_count,
                            h.executed)

\* request_count += 1, then the three message.get calls outside the try
\* (AttributeError escapes when the message is not an object), then the
\* dispatch inside try/except Exception.
handle_message(mods, srv, message, probe, exec, probes) ==
    LET counted == [srv EXCEPT !.request_count = @ + 1]
    IN IF message.shape # "object"
       THEN Handled(TRUE, None, srv.initialized, counted.request_count,
                    srv.error_count, <<>>)
       ELSE LET params == IF message.params.shape = "absent"
                          THEN EmptyParams ELSE message.params
                h == Dispatch(mods, counted, message.method, message.id, params,
                              probe, exec, probes)
            IN IF h.raised
               THEN Handled(FALSE,
                            error_response(message.id, InternalError,
                                Text("internal_error", None, None, h.fault)),
                            h.initialized, counted.request_count,
                            srv.error_count + 1, h.executed)
               ELSE Handled(FALSE, h.response, h.initialized,
                            counted.request_count, srv.error_count, h.executed)

\* ---------------------------------------------------------------- state
VARIABLES
    modules,        \* registry.modules, in insertion order
    initialized,    \* server.initialized
    request_count,  \* server.request_count
    error_count,    \* server.error_count
    loop,           \* "idle" before run_stdio, then "running", then "shutdown"
    lines_read,     \* lines run_stdio has read from stdin
    lines_written,  \* lines run_stdio has printed to stdout
    last            \* the last operation: its inputs and what it produced

vars == << modules, initialized, request_count, error_count, loop,
           lines_read, lines_written, last >>

server == [initialized |-> initialized, request_count |-> request_count,
           error_count |-> error_count]

Configs == [name : ModuleNames, enabled : BOOLEAN]

\* Outcomes of the probe calls of one registry get_status: probes[2i-1] is
\* what module i's probe returns inside is_available, probes[2i] what it
\* returns for dependencies_met.  The modules share one environment, so the
\* first calls agree and the second calls agree; once a call has raised no
\* further call is made (placeholder "true").
StatusProbes(mods) ==
    { [i \in 1..(2 * Len(mods)) |-> IF i % 2 = 1 THEN p[1] ELSE p[2]] :
        p \in { q \in ProbeOutcomes \X ProbeOutcomes : q[1] = "raise" => q[2] = "true" } }

NoProbes(mods) == [i \in 1..(2 * Len(mods)) |-> "true"]
NoExec == [raises |-> FALSE, text |-> "scan report"]

\* The outcomes execute_tool can have after the probe returned `probe`
\* (it is called only when the module is available).
ExecAfter(probe) == IF probe = "true" THEN ExecOutcomes ELSE {NoExec}

\* Only a tools/call that names a tool some module defines can make a module
\* probe its dependencies or execute; for every other message the probe and
\* execute_tool outcomes are placeholders.
NamesATool(message) ==
    /\ message.shape = "object"
    /\ message.method = "tools/call"
    /\ message.params.shape = "object"
    /\ message.params.name \in ToolNames

Init ==
    /\ modules = <<>>
    /\ initialized = FALSE
    /\ request_count = 0
    /\ error_count = 0
    /\ loop = "idle"
    /\ lines_read = 0
    /\ lines_written = 0
    /\ last = [op |-> "init"]

ServerUnchanged == UNCHANGED << initialized, request_count, error_count >>
StreamsUnchanged == UNCHANGED << loop, lines_read, lines_written >>

\* Construct a module from a ModuleConfig and register it, as load_module
\* does before run_stdio starts.  A probe that raises makes the constructor
\* raise, and nothing is registered.
RegisterModule ==
    /\ loop = "idle"
    /\ \E cfg \in Configs, probe \in ProbeOutcomes :
       \E reg \in RegisterOutcomes(cfg.name) :
         IF probe = "raise"
         THEN /\ UNCHANGED modules
              /\ last' = [op |-> "register_module", cfg |-> cfg, probe |-> probe,
                          reg |-> reg, constructed |-> FALSE,
                          calls |-> initialize_calls(cfg, probe, reg)]
         ELSE /\ modules' = register_module(modules, ModuleInit(cfg, probe, reg))
              /\ last' = [op |-> "register_module", cfg |-> cfg, probe |-> probe,
                          reg |-> reg, constructed |-> TRUE,
                          calls |-> initialize_calls(cfg, probe, reg)]
    /\ ServerUnchanged
    /\ StreamsUnchanged

CallSafeExecuteToolDisablesUnavailable ==
    /\ loop = "idle"
    /\ \E i \in 1..Len(modules), t \in ToolNames \cup {UnknownTool},
          probe \in ProbeOutcomes :
         \E exec \in ExecAfter(probe) :
            /\ last' = [op |-> "safe_execute_tool", module |-> modules[i],
                        tool_name |-> t, probe |-> probe, exec |-> exec,
                        result |-> safe_execute_tool(modules[i], t, probe, exec)]
            /\ modules' = IF probe = "false"
                          THEN [modules EXCEPT ![i].enabled = FALSE]
                          ELSE modules
    /\ ServerUnchanged
    /\ StreamsUnchanged

\* A direct call of module.safe_execute_tool on a registered module.
CallSafeExecuteTool ==
    /\ loop = "idle"
    /\ \E i \in 1..Len(modules), t \in ToolNames \cup {UnknownTool},
          probe \in ProbeOutcomes :
         \E exec \in ExecAfter(probe) :
            last' = [op |-> "safe_execute_tool", module |-> modules[i],
                     tool_name |-> t, probe |-> probe, exec |-> exec,
                     result |-> safe_execute_tool(modules[i], t, probe, exec)]
    /\ UNCHANGED modules
    /\ ServerUnchanged
    /\ StreamsUnchanged

\* A direct call of registry.find_tool.
CallFindTool ==
    /\ loop = "idle"
    /\ \E t \in ToolNames \cup {UnknownTool} :
         last' = [op |-> "find_tool", tool_name |-> t,
                  result |-> find_tool(modules, t)]
    /\ UNCHANGED modules
    /\ ServerUnchanged
    /\ StreamsUnchanged

\* A direct call of registry.execute_tool.
CallExecuteTool ==
    /\ loop = "idle"
    /\ \E t \in ToolNames \cup {UnknownTool}, probe \in ProbeOutcomes :
         \E exec \in ExecAfter(probe) :
            last' = [op |-> "execute_tool", tool_name |-> t, probe |-> probe,
                     exec |-> exec,
                     result |-> registry_execute_tool(modules, t, probe, exec)]
    /\ UNCHANGED modules
    /\ ServerUnchanged
    /\ StreamsUnchanged

CallGetStatusCachesAvailability ==
    /\ loop = "idle"
    /\ \E probes \in StatusProbes(modules) :
         /\ last' = [op |-> "get_status", probes |-> probes,
                     result |-> registry_get_status(modules, probes),
                     repeat |-> (last.op = "get_status" /\ last.probes = probes)]
         /\ modules' = [i \in 1..Len(modules) |->
                          [modules[i] EXCEPT
                             !.enabled = @ /\ probes[2 * i - 1] = "true"]]
    /\ ServerUnchanged
    /\ StreamsUnchanged

\* A direct call of registry.get_status, which calls get_status of every
\* module.  repeat tells that the previous operation was the same call
\* with the same probe outcomes.
CallGetStatus ==
    /\ loop = "idle"
    /\ \E probes \in StatusProbes(modules) :
         last' = [op |-> "get_status", probes |-> probes,
                  result |-> registry_get_status(modules, probes),
                  repeat |-> (last.op = "get_status" /\ last.probes = probes)]
    /\ UNCHANGED modules
    /\ ServerUnchanged
    /\ StreamsUnchanged

\* main: run_stdio starts after the modules are loaded.
StartStdio ==
    /\ loop = "idle"
    /\ loop' = "running"
    /\ last' = [op |-> "run_stdio"]
    /\ UNCHANGED << modules, lines_read, lines_written >>
    /\ ServerUnchanged

\* readline() returns "": break.
ReadEof ==
    /\ loop = "running"
    /\ loop' = "shutdown"
    /\ last' = [op |-> "read", line |-> "eof"]
    /\ UNCHANGED << modules, lines_read, lines_written >>
    /\ ServerUnchanged

ReadBlankBreaks ==
    /\ loop = "running"
    /\ lines_read < MaxLines
    /\ lines_read' = lines_read + 1
    /\ loop' = "shutdown"
    /\ last' = [op |-> "read", line |-> "blank"]
    /\ UNCHANGED << modules, lines_written >>
    /\ ServerUnchanged

\* A line that is empty after strip(): continue.
ReadBlank ==
    /\ loop = "running"
    /\ lines_read < MaxLines
    /\ lines_read' = lines_read + 1
    /\ last' = [op |-> "read", line |-> "blank"]
    /\ UNCHANGED << modules, loop, lines_written >>
    /\ ServerUnchanged

ReadUnparsableFatal ==
    /\ loop = "running"
    /\ lines_read < MaxLines
    /\ lines_read' = lines_read + 1
    /\ lines_written' = lines_written + 1
    /\ loop' = "shutdown"
    /\ last' = [op |-> "read", line |-> "unparsable",
                response |-> error_response(None, ParseError,
                                 Text("parse_error", None, None, "JSONDecodeError"))]
    /\ UNCHANGED modules
    /\ ServerUnchanged

\* json.loads raises JSONDecodeError: print the parse error, go on.
ReadUnparsable ==
    /\ loop = "running"
    /\ lines_read < MaxLines
    /\ lines_read' = lines_read + 1
    /\ lines_written' = lines_written + 1
    /\ last' = [op |-> "read", line |-> "unparsable",
                response |-> error_response(None, ParseError,
                                 Text("parse_error", None, None, "JSONDecodeError"))]
    /\ UNCHANGED << modules, loop >>
    /\ ServerUnchanged

\* A line json.loads parses: handle_message, then print the response; a
\* fault escaping handle_message is logged and ends the loop.
ReadMessage ==
    /\ loop = "running"
    /\ lines_read < MaxLines
    /\ \E message \in Messages :
       \E probe \in (IF NamesATool(message) THEN ProbeOutcomes ELSE {"true"}) :
       \E exec \in (IF NamesATool(message) THEN ExecAfter(probe) ELSE {NoExec}) :
       \E probes \in (IF message.method = "server/status"
                      THEN StatusProbes(modules) ELSE {NoProbes(modules)}) :
          LET h == handle_message(modules, server, message, probe, exec, probes)
          IN /\ initialized' = h.initialized
             /\ request_count' = h.request_count
             /\ error_count' = h.error_count
             /\ lines_read' = lines_read + 1
             /\ loop' = IF h.escaped THEN "shutdown" ELSE "running"
             /\ lines_written' = IF h.escaped THEN lines_written ELSE lines_written + 1
             /\ last' = [op |-> "read", line |-> "message", message |-> message,
                         probe |-> probe, exec |-> exec, probes |-> probes,
                         escaped |-> h.escaped, response |-> h.response,
                         executed |-> h.executed]
    /\ UNCHANGED modules

Next ==
    \/ RegisterModule
    \/ CallSafeExecuteTool
    \/ CallFindTool
    \/ CallExecuteTool
    \/ CallGetStatus
    \/ StartStdio
    \/ ReadEof
    \/ ReadBlank
    \/ ReadUnparsable
    \/ ReadMessage

Spec == Init /\ [][Next]_vars

\* One iteration of the while loop of run_stdio.
RunStdioStep == ReadEof \/ ReadBlank \/ ReadUnparsable \/ ReadMessage

\* The registries main can hand to run_stdio when both modules are configured
\* enabled: each module's dependency check passed or failed at construction.
LoadedRegistries ==
    { register_module(
          register_module(<<>>,
              ModuleInit([name |-> "nuclei", enabled |-> TRUE], p1,
                         [raises |-> FALSE, tools |-> ToolsOf("nuclei")])),
          ModuleInit([name |-> "shodan", enabled |-> TRUE], p2,
                     [raises |-> FALSE, tools |-> ToolsOf("shodan")])) :
        p1 \in {"true", "false"}, p2 \in {"true", "false"} }

\* run_stdio from its first iteration, on a loaded registry.
LoopInit ==
    /\ modules \in LoadedRegistries
    /\ initialized = FALSE
    /\ request_count = 0
    /\ error_count = 0
    /\ loop = "running"
    /\ lines_read = 0
    /\ lines_written = 0
    /\ last = [op |-> "run_stdio"]

\* The transport loop alone.  The single task keeps iterating: readline
\* returns on a finite stream and every awaited handler completes.
LoopSpec == LoopInit /\ [][RunStdioStep]_vars /\ WF_vars(RunStdioStep)

TypeOK ==
    /\ Len(modules) <= Cardinality(ModuleNames)
    /\ \A i, j \in 1..Len(modules) : modules[i].name = modules[j].name => i = j
    /\ initialized \in BOOLEAN
    /\ request_count \in 0..MaxLines
    /\ error_count \in 0..request_count
    /\ loop \in {"idle", "running", "shutdown"}
    /\ lines_written <= lines_read

\* ------------------------------------------------------------- helpers
\* The operation recorded in l is a parsed line handed to handle_message.
HandledMessage(l) == l.op = "read" /\ l.line = "message"

IsErrorResponse(r, code) ==
    "error" \in DOMAIN r /\ "result" \notin DOMAIN r /\ r.error.code = code
IsResultResponse(r) == "result" \in DOMAIN r /\ "error" \notin DOMAIN r

FailureFormats ==
    {"module_not_available", "tool_not_found_in_module", "error_executing",
     "tool_not_found_in_any_enabled_module"}

\* The module lists a tool of this name.
Defines(m, t) == \E k \in 1..Len(m.tools) : m.tools[k].name = t
\* Positions of the enabled modules that list the tool.
Owners(mods, t) == { i \in 1..Len(mods) : mods[i].enabled /\ Defines(mods[i], t) }
FirstOwner(mods, t) == CHOOSE i \in Owners(mods, t) : \A j \in Owners(mods, t) : i <= j

\* A tools/call request whose params are an object with a non-empty name.
CallsWithName(message) ==
    /\ message.shape = "object"
    /\ message.method = "tools/call"
    /\ message.params.shape = "object"
    /\ message.params.name \notin {None, ""}

\* ---------------------------------------------------------------- claims

\* C1: safe_execute_tool never raises, whatever the module state and whatever
\* the probe and execute_tool do (raising included).  It returns the
\* not-available string when the module is disabled or the probe returns
\* False, an error string when the probe raises, the not-in-module string
\* when the module is available but lacks the tool, an error string when
\* execute_tool raises, and otherwise exactly the string execute_tool
\* returned.
C1_SafeExecuteNeverRaises ==
    last.op = "safe_execute_tool" =>
        LET m == last.module
            t == last.tool_name
            r == last.result
            unavailable == ~m.enabled \/ last.probe = "false"
            probe_fault == m.enabled /\ last.probe = "raise"
            reached == ~unavailable /\ ~probe_fault /\ Defines(m, t)
        IN /\ ~r.raised
           /\ unavailable => r.text = ModuleNotAvailable(m.name) /\ r.executed = <<>>
           /\ probe_fault => r.text.fmt = "error_executing" /\ r.executed = <<>>
           /\ (~unavailable /\ ~probe_fault /\ ~Defines(m, t)) =>
                 r.text = ToolNotInModule(t, m.name) /\ r.executed = <<>>
           /\ (reached /\ last.exec.raises) =>
                 /\ r.text.fmt = "error_executing"
                 /\ r.text.tool = t /\ r.text.module = m.name
           /\ (reached /\ ~last.exec.raises) => r.text = PlainText(last.exec.text)

\* C1 witness: execute_tool raised inside an available module that has the
\* tool, and the caller got the error string.
C1_Witness ==
    /\ last.op = "safe_execute_tool"
    /\ last.module.enabled /\ last.probe = "true"
    /\ Defines(last.module, last.tool_name)
    /\ last.exec.raises
    /\ last.result.text.fmt = "error_executing"

\* C2 (as claimed): every parsed message handed to handle_message, whatever
\* its shape, gets a response object and no fault escapes to the transport
\* loop.
C2_NoFaultEscapesHandler ==
    HandledMessage(last) =>
        /\ ~last.escaped
        /\ IsResultResponse(last.response) \/ "error" \in DOMAIN last.response

\* C3 (as claimed): a tools/call with a non-empty name whose tool is in no
\* enabled module, whose owning module is unavailable, or whose execute_tool
\* raises, is answered with a success envelope whose content text is the
\* failure string, with no error field, and error_count stays as it was.
C3_ToolFailuresAreSuccessEnvelopes ==
    [][ (/\ HandledMessage(last')
         /\ CallsWithName(last'.message)
         /\ \/ Owners(modules, last'.message.params.name) = {}
            \/ last'.probe # "true"
            \/ last'.exec.raises)
        => (/\ ~last'.escaped
            /\ IsResultResponse(last'.response)
            /\ last'.response.result.content[1].text.fmt \in FailureFormats
            /\ error_count' = error_count) ]_vars

\* C4: the registry's execute_tool never raises.  For a name no enabled
\* module has it returns the "not found in any enabled module" string and
\* calls no safe_execute_tool; for a name with an owner it returns exactly
\* what the first owner's safe_execute_tool returns.
C4_DispatchNeverRaises ==
    last.op = "execute_tool" =>
        LET t == last.tool_name
            r == last.result
        IN /\ ~r.raised
           /\ Owners(modules, t) = {} =>
                 /\ r.text = ToolNotFoundAnywhere(t)
                 /\ r.safe_calls = 0
                 /\ r.executed = <<>>
           /\ Owners(modules, t) # {} =>
                 LET s == safe_execute_tool(modules[FirstOwner(modules, t)], t,
                                            last.probe, last.exec)
                 IN r.safe_calls = 1 /\ r.text = s.text /\ r.executed = s.executed

\* C4 witness: a dispatch of a name that no module in a non-empty registry
\* has.
C4_Witness ==
    /\ last.op = "execute_tool"
    /\ Len(modules) > 0
    /\ \A i \in 1..Len(modules) : ~Defines(modules[i], last.tool_name)
    /\ last.result.text = ToolNotFoundAnywhere(last.tool_name)

\* C5: dispatching a name that only disabled modules list gives what
\* dispatching an unknown name gives, the not-found string, and no
\* execute_tool of a disabled module is invoked.
C5_DisabledOwnerIsNotFound ==
    (/\ last.op = "execute_tool"
     /\ \A i \in 1..Len(modules) : Defines(modules[i], last.tool_name) => ~modules[i].enabled)
    => /\ last.result.text = ToolNotFoundAnywhere(last.tool_name)
       /\ last.result.text.fmt =
             registry_execute_tool(modules, UnknownTool, last.probe, last.exec).text.fmt
       /\ last.result.executed = <<>>
       /\ last.result.safe_calls = 0

\* C5 witness: a disabled module lists the dispatched tool and the answer is
\* not found.
C5_Witness ==
    /\ last.op = "execute_tool"
    /\ \E i \in 1..Len(modules) : ~modules[i].enabled /\ Defines(modules[i], last.tool_name)
    /\ \A i \in 1..Len(modules) : Defines(modules[i], last.tool_name) => ~modules[i].enabled
    /\ last.result.text = ToolNotFoundAnywhere(last.tool_name)

\* C6: find_tool returns the first module in enumeration order that is
\* enabled and lists the tool, None when there is none; the module dispatch
\* hands the call to, and the module that executes, is that same first one.
C6_FirstMatchWins ==
    /\ last.op = "find_tool" =>
          last.result = IF Owners(modules, last.tool_name) = {} THEN 0
                        ELSE FirstOwner(modules, last.tool_name)
    /\ (last.op = "execute_tool" /\ Owners(modules, last.tool_name) # {}) =>
          /\ last.result.owner = FirstOwner(modules, last.tool_name)
          /\ \A k \in 1..Len(last.result.executed) :
                last.result.executed[k].module =
                    modules[FirstOwner(modules, last.tool_name)].name

\* C6 witness: two enabled modules list the tool and the earlier one executed.
C6_Witness ==
    /\ last.op = "execute_tool"
    /\ Cardinality(Owners(modules, last.tool_name)) = 2
    /\ Len(last.result.executed) = 1
    /\ last.result.executed[1].module = modules[1].name

C8_UnknownMethod ==
    [][ (/\ HandledMessage(last')
         /\ last'.message.shape = "object"
         /\ last'.message.method \notin Methods)
        => (/\ ~last'.escaped
            /\ IsErrorResponse(last'.response, MethodNotFound)
            /\ initialized' = initialized
            /\ error_count' = error_count
            /\ modules' = modules) ]_vars

\* C8 witness: a message without a method was answered with -32601 after an
\* earlier message had been counted as an error.
C8_Witness ==
    /\ HandledMessage(last)
    /\ last.message.shape = "object"
    /\ last.message.method = None
    /\ error_count > 0
    /\ IsErrorResponse(last.response, MethodNotFound)

\* C9 (as claimed): a tools/call with a name and with arguments that are a
\* mapping (absent or an object, whatever its keys) never produces -32603.
C9_DispatchPathRaisesNoFault ==
    (/\ HandledMessage(last)
     /\ CallsWithName(last.message)
     /\ last.message.params.arguments.shape \in {"absent", "object"})
    => /\ ~last.escaped
       /\ ~IsErrorResponse(last.response, InternalError)

\* C10 (as claimed): every initialize request, whatever its params, gets a
\* result with protocolVersion, capabilities and serverInfo, never an error.
C10_InitializeAlwaysSucceeds ==
    (/\ HandledMessage(last)
     /\ last.message.shape = "object"
     /\ last.message.method = "initialize")
    => /\ ~last.escaped
       /\ IsResultResponse(last.response)
       /\ {"protocolVersion", "capabilities", "serverInfo"}
              \subseteq DOMAIN last.response.result

\* A step of the transport loop that handed a parsed line to handle_message.
HandlesMessage == HandledMessage(last') /\ lines_read' = lines_read + 1

\* C11: initialized is false at the start, is true after every initialize
\* message, changes on no other message and is never set back to false; a
\* tools/list, tools/call or server/status request gets the response it
\* would get with the flag the other way round.
C11_InitializedFlag ==
    /\ ~initialized
    /\ [][ /\ initialized => initialized'
           /\ initialized' # initialized =>
                 HandlesMessage /\ last'.message.method = "initialize"
           /\ (HandlesMessage /\ last'.message.shape = "object"
                 /\ last'.message.method = "initialize") => initialized'
           /\ (HandlesMessage /\ last'.message.shape = "object"
                 /\ last'.message.method \in {"tools/list", "tools/call", "server/status"})
              => last'.response =
                    handle_message(modules,
                                   [server EXCEPT !.initialized = ~initialized],
                                   last'.message, last'.probe, last'.exec,
                                   last'.probes).response ]_vars

\* C11 witness: a tools/list request answered with a result while the flag
\* is still false.
C11_Witness ==
    /\ HandledMessage(last)
    /\ last.message.method = "tools/list"
    /\ ~initialized
    /\ request_count = 2
    /\ IsResultResponse(last.response)

\* C12: request_count starts at 0, grows by exactly one on every message
\* handed to handle_message (also one whose handling faults) and changes on
\* no other step; the increment comes before the method is resolved, so a
\* server/status result reports a count that includes its own request.
C12_RequestCount ==
    /\ request_count = 0
    /\ [][ /\ IF HandlesMessage THEN request_count' = request_count + 1
                                ELSE request_count' = request_count
           /\ (HandlesMessage /\ last'.message.method = "server/status"
                 /\ IsResultResponse(last'.response))
              => last'.response.result.server.requests_handled = request_count + 1
       ]_vars

\* C12 witness: the second message is a server/status that reports two
\* requests.
C12_Witness ==
    /\ HandledMessage(last)
    /\ last.message.method = "server/status"
    /\ IsResultResponse(last.response)
    /\ last.response.result.server.requests_handled = 2
    /\ request_count = 2

\* C13: error_count starts at 0 and grows by exactly one on the steps that
\* answer a message with -32603, and on no other step (not on -32601, -32602,
\* -32700 or a result); so error_count never exceeds request_count.
C13_ErrorCount ==
    /\ error_count = 0
    /\ [][ IF HandlesMessage /\ ~last'.escaped
              /\ IsErrorResponse(last'.response, InternalError)
           THEN error_count' = error_count + 1
           ELSE error_count' = error_count ]_vars
    /\ [](error_count <= request_count)

\* C13 witness: after a message answered with -32603, a message answered
\* with -32602 left error_count at one.
C13_Witness ==
    /\ HandledMessage(last)
    /\ ~last.escaped
    /\ IsErrorResponse(last.response, InvalidParams)
    /\ error_count = 1
    /\ request_count = 2

\* C14: every response handle_message returns has jsonrpc "2.0", the id of
\* the request it answers (null when the request has no id), and exactly one
\* of result and error, an error being {code, message}.
C14_ResponseEnvelope ==
    (HandledMessage(last) /\ ~last.escaped) =>
        LET r == last.response
        IN /\ r.jsonrpc = "2.0"
           /\ r.id = last.message.id
           /\ ("result" \in DOMAIN r) # ("error" \in DOMAIN r)
           /\ DOMAIN r \subseteq {"jsonrpc", "id", "result", "error"}
           /\ "error" \in DOMAIN r => DOMAIN r.error = {"code", "message"}

\* C14 witness: an error response that carries the id of its request.
C14_Witness ==
    /\ HandledMessage(last)
    /\ ~last.escaped
    /\ last.message.id = "1"
    /\ "error" \in DOMAIN last.response
    /\ last.response.id = "1"

\* A step of the transport loop that read a line of the given kind.
ReadsLine(kind) ==
    last'.op = "read" /\ last'.line = kind /\ lines_read' = lines_read + 1

\* C15: an unparsable line is answered with one error response, code -32700
\* and id null; request_count and error_count stay as they were, and the
\* loop keeps running, so the lines after it are read and handled.
C15_ParseErrorIsNotFatal ==
    [][ ReadsLine("unparsable") =>
          /\ IsErrorResponse(last'.response, ParseError)
          /\ last'.response.id = None
          /\ lines_written' = lines_written + 1
          /\ request_count' = request_count
          /\ error_count' = error_count
          /\ loop' = "running" ]_vars

\* C15 witness: the line after an unparsable line was handed to the handler
\* and answered.
C15_Witness ==
    /\ HandledMessage(last)
    /\ ~last.escaped
    /\ lines_read = 2
    /\ lines_written = 2
    /\ request_count = 1

\* C16: a blank line writes nothing, changes no counter and leaves the loop
\* running; end of stream ends the loop; and on a finite input stream a
\* running loop eventually shuts down.
C16_LoopTerminates ==
    /\ [][ ReadsLine("blank") =>
             /\ lines_written' = lines_written
             /\ request_count' = request_count
             /\ error_count' = error_count
             /\ initialized' = initialized
             /\ loop' = "running" ]_vars
    /\ [][ (last'.op = "read" /\ last'.line = "eof" /\ loop = "running") =>
             /\ loop' = "shutdown"
             /\ lines_read' = lines_read
             /\ lines_written' = lines_written ]_vars
    /\ (loop = "running") ~> (loop = "shutdown")

\* C16 witness: the loop has shut down at end of stream after skipping a
\* blank line and answering another line.
C16_Witness ==
    /\ loop = "shutdown"
    /\ last.op = "read" /\ last.line = "eof"
    /\ lines_read = 2
    /\ lines_written = 1
    /\ request_count = 1

\* C17 (as claimed): every non-empty line read gets exactly one response
\* line, written in the iteration that read it (so before the next line is
\* read and in request order), and the response to a message answers that
\* message.
C17_OneResponsePerLine ==
    [][ (ReadsLine("unparsable") \/ ReadsLine("message")) =>
          /\ lines_written' = lines_written + 1
          /\ ReadsLine("message") =>
                ~last'.escaped /\ last'.response.id = last'.message.id ]_vars

\* The module registered under the name of the configuration just constructed.
Constructed == modules[PositionOf(modules, last.cfg.name)]

\* C18: when the dependency check returns False during construction, the
\* constructed module is disabled whatever config.enabled was, get_tools()
\* is empty and has_tool is false for every name.
C18_FailedDependenciesDisable ==
    (last.op = "register_module" /\ last.probe = "false") =>
        /\ last.constructed
        /\ ~Constructed.enabled
        /\ get_tools(Constructed) = <<>>
        /\ \A t \in ToolNames \cup {UnknownTool} : ~has_tool(Constructed, t)

\* C18 witness: a module configured enabled, whose _register_tools would
\* have returned tools, was constructed with a failing dependency check.
C18_Witness ==
    /\ last.op = "register_module"
    /\ last.probe = "false"
    /\ last.cfg.enabled
    /\ ~last.reg.raises /\ last.reg.tools # <<>>
    /\ last.constructed
    /\ ~Constructed.enabled

\* The tool is one a module whose construction failed was meant to provide.
IntendedOfFailedModule(mods, t) ==
    \E i \in 1..Len(mods) :
        /\ ~mods[i].enabled /\ mods[i].tools = <<>>
        /\ \E k \in 1..Len(ToolsOf(mods[i].name)) : ToolsOf(mods[i].name)[k].name = t

\* C19 (as claimed): when _register_tools raises, construction completes and
\* the module is disabled with an empty tool list; and a tools/call naming
\* one of the tools such a module was meant to provide (no enabled module
\* listing it) is answered with the "not found" text in a result, never
\* with an error.
C19_RegistrationFaultIsRecovered ==
    /\ (last.op = "register_module" /\ last.probe = "true" /\ last.reg.raises) =>
          /\ last.constructed
          /\ ~Constructed.enabled
          /\ Constructed.tools = <<>>
    /\ (/\ HandledMessage(last)
        /\ CallsWithName(last.message)
        /\ IntendedOfFailedModule(modules, last.message.params.name)
        /\ Owners(modules, last.message.params.name) = {}) =>
          /\ ~last.escaped
          /\ IsResultResponse(last.response)
          /\ last.response.result.content[1].text =
                 ToolNotFoundAnywhere(last.message.params.name)

\* Number of calls of _register_tools among the calls made.
RegisterToolsCalls(calls) ==
    Cardinality({ k \in 1..Len(calls) : calls[k] = "_register_tools" })

\* C20 (as claimed): every completed construction called _register_tools
\* exactly once, whatever the dependency check returned.
C20_RegisterToolsExactlyOnce ==
    (last.op = "register_module" /\ last.constructed) =>
        RegisterToolsCalls(last.calls) = 1

\* C20 (amended): construction calls _register_tools once when the
\* dependency check returned True and not at all when it returned False or
\* raised; no other operation constructs a module or replaces a tool list.
C20_RegisterToolsOnceIfDependenciesHold ==
    [][ /\ last'.op = "register_module" =>
             RegisterToolsCalls(last'.calls) = IF last'.probe = "true" THEN 1 ELSE 0
        /\ last'.op # "register_module" => modules' = modules ]_vars

\* C20 witness: a construction that completed without calling
\* _register_tools.
C20_Witness ==
    /\ last.op = "register_module"
    /\ last.constructed
    /\ last.probe = "false"
    /\ last.cfg.enabled
    /\ last.calls = <<"_check_dependencies">>

\* C21: for every module, get_tool finds each descriptor the module
\* registered under that descriptor's name and has_tool is true for it,
\* whether or not the module is enabled; for every other name get_tool
\* returns None and has_tool is false.  A module just constructed holds
\* exactly the descriptors its _register_tools returned.
C21_RegisteredToolsAreFound ==
    /\ \A i \in 1..Len(modules) :
          LET m == modules[i]
          IN /\ \A k \in 1..Len(m.tools) :
                   /\ get_tool(m, m.tools[k].name) # 0
                   /\ m.tools[get_tool(m, m.tools[k].name)] = m.tools[k]
                   /\ has_tool(m, m.tools[k].name)
             /\ \A t \in ToolNames \cup {UnknownTool} :
                   ~Defines(m, t) => get_tool(m, t) = 0 /\ ~has_tool(m, t)
    /\ (/\ last.op = "register_module"
        /\ last.constructed
        /\ RegisterToolsCalls(last.calls) = 1
        /\ ~last.reg.raises) =>
          \A k \in 1..Len(last.reg.tools) :
             /\ has_tool(Constructed, last.reg.tools[k].name)
             /\ Constructed.tools[get_tool(Constructed, last.reg.tools[k].name)]
                   = last.reg.tools[k]

\* C21 witness: a module disabled by its configuration was constructed with
\* two registered tools, and the second is found at its own position.
C21_Witness ==
    /\ last.op = "register_module"
    /\ last.constructed
    /\ ~last.cfg.enabled
    /\ Len(Constructed.tools) = 2
    /\ get_tool(Constructed, Constructed.tools[2].name) = 2
    /\ ~has_tool(Constructed, UnknownTool)

\* C22: only the registration of a module changes the registry.  Every
\* other operation (safe_execute_tool, find_tool, execute_tool, every line
\* the transport loop handles) leaves every module's enabled flag and tools
\* and the mapping as they were; a registration changes at most the entry
\* of the name registered, and none when the constructor raised.
C22_OnlyRegisterChangesRegistry ==
    [][ /\ last'.op # "register_module" => modules' = modules
        /\ last'.op = "register_module" =>
              /\ \A i \in 1..Len(modules) :
                    modules[i].name # last'.cfg.name => modules'[i] = modules[i]
              /\ ~last'.constructed => modules' = modules ]_vars

\* C22 witness: a tools/call reached an enabled module whose dependency
\* check returned False, and the module is still enabled with its tools.
C22_Witness ==
    /\ HandledMessage(last)
    /\ CallsWithName(last.message)
    /\ last.probe = "false"
    /\ ~last.escaped
    /\ IsResultResponse(last.response)
    /\ last.response.result.content[1].text.fmt = "module_not_available"
    /\ Owners(modules, last.message.params.name) # {}

\* C23: the registry holds at most one module per name; after a
\* registration get_module of that name is the module just constructed; and
\* no step removes a module: the number of modules never decreases and
\* every name registered stays registered.
C23_RegistryIsKeyedByName ==
    [][ /\ \A i, j \in 1..Len(modules') :
              modules'[i].name = modules'[j].name => i = j
        /\ (last'.op = "register_module" /\ last'.constructed) =>
              /\ get_module(modules', last'.cfg.name) # 0
              /\ modules'[get_module(modules', last'.cfg.name)]
                    = ModuleInit(last'.cfg, last'.probe, last'.reg)
        /\ Len(modules') >= Len(modules)
        /\ \A i \in 1..Len(modules) : get_module(modules', modules[i].name) # 0 ]_vars

\* C23 witness: with two modules registered, the first name was registered
\* again, and get_module of it is the new, disabled module.
C23_Witness ==
    /\ last.op = "register_module"
    /\ last.constructed
    /\ Len(modules) = 2
    /\ get_module(modules, last.cfg.name) = 1
    /\ last.probe = "false"
    /\ ~modules[1].enabled

\* A tool rendered as tools/list renders it.
Rendered(tool) ==
    [name |-> tool.name, description |-> tool.description,
     inputSchema |-> tool.inputSchema]

\* The tools of the first n modules, module by module in enumeration order,
\* skipping the modules whose enabled flag is false.
RECURSIVE ListedUpTo(_, _)
ListedUpTo(mods, n) ==
    IF n = 0 THEN <<>>
    ELSE ListedUpTo(mods, n - 1) \o
         (IF mods[n].enabled
          THEN [k \in 1..Len(mods[n].tools) |-> Rendered(mods[n].tools[k])]
          ELSE <<>>)

\* A handled tools/list request.
ListsTools(l) ==
    /\ HandledMessage(l)
    /\ l.message.shape = "object"
    /\ l.message.method = "tools/list"

\* C24: the result of tools/list is the concatenation, in enumeration order,
\* of the rendered tool lists of the enabled modules; no entry comes from a
\* disabled module; and with one enabled module holding one tool it has
\* exactly that entry.
C24_ToolsListIsConcatenation ==
    ListsTools(last) =>
        /\ ~last.escaped
        /\ IsResultResponse(last.response)
        /\ LET listed == last.response.result.tools
           IN /\ listed = ListedUpTo(modules, Len(modules))
              /\ \A k \in 1..Len(listed) :
                    \E i \in 1..Len(modules) :
                       /\ modules[i].enabled
                       /\ \E j \in 1..Len(modules[i].tools) :
                             listed[k] = Rendered(modules[i].tools[j])
              /\ (/\ Len(get_enabled_modules(modules)) = 1
                  /\ Len(modules[get_enabled_modules(modules)[1]].tools) = 1) =>
                    /\ Len(listed) = 1
                    /\ listed[1].name =
                          modules[get_enabled_modules(modules)[1]].tools[1].name

\* C24 witness: tools/list over an enabled module after a disabled module
\* that holds tools; only the enabled module's tools are listed.
C24_Witness ==
    /\ ListsTools(last)
    /\ Len(modules) = 2
    /\ ~modules[1].enabled /\ modules[1].tools # <<>>
    /\ modules[2].enabled /\ Len(modules[2].tools) = 2
    /\ Len(last.response.result.tools) = 2
    /\ last.response.result.tools[1].name = "scan"

\* Two registry statuses report the same counts and, module by module, the
\* same tools_count, enabled flag and available flag.
SameStatus(a, b) ==
    /\ a.total_modules = b.total_modules
    /\ a.enabled_modules = b.enabled_modules
    /\ a.total_tools = b.total_tools
    /\ Len(a.modules) = Len(b.modules)
    /\ \A i \in 1..Len(a.modules) :
          /\ a.modules[i].name = b.modules[i].name
          /\ a.modules[i].tools_count = b.modules[i].tools_count
          /\ a.modules[i].enabled = b.modules[i].enabled
          /\ a.modules[i].available = b.modules[i].available

\* A handled server/status request that was answered with a result.
AnswersStatus(l) ==
    /\ HandledMessage(l)
    /\ l.message.shape = "object"
    /\ l.message.method = "server/status"
    /\ ~l.escaped
    /\ IsResultResponse(l.response)

\* C25: get_status changes no module and no registry state, and a second
\* get_status right after a first one, with the dependency probe behaving
\* the same, reports the same tools_count, enabled and available flags;
\* likewise for two server/status requests in a row.
C25_StatusIsIdempotent ==
    [][ /\ last'.op = "get_status" =>
              /\ modules' = modules
              /\ (last'.repeat /\ ~last.result.raised) =>
                    /\ ~last'.result.raised
                    /\ SameStatus(last.result.value, last'.result.value)
        /\ (AnswersStatus(last) /\ HandledMessage(last')
              /\ last'.message = last.message /\ last'.probes = last.probes) =>
              /\ AnswersStatus(last')
              /\ modules' = modules
              /\ SameStatus(last.response.result.modules,
                            last'.response.result.modules) ]_vars

\* C25 witness: a second get_status in a row, probes unchanged, on a
\* registry with an enabled module whose dependencies are not met.
C25_Witness ==
    /\ last.op = "get_status"
    /\ last.repeat
    /\ ~last.result.raised
    /\ \E i \in 1..Len(modules) :
          /\ modules[i].enabled
          /\ ~last.result.value.modules[i].available
          /\ last.result.value.modules[i].tools_count > 0

\* C26 (as claimed): for an enabled module whose dependency check now
\* returns False, tools/list still lists its tools, find_tool still
\* resolves to the first enabled module listing the name, a tools/call on
\* one of its tools is answered with a result whose text is the
\* module-not-available string, and safe_execute_tool reports
\* not-available for a known and for an unknown tool name alike.
C26_LostDependencies ==
    /\ ListsTools(last) =>
          \A i \in 1..Len(modules) :
             modules[i].enabled =>
                \A k \in 1..Len(modules[i].tools) :
                   \E j \in 1..Len(last.response.result.tools) :
                      last.response.result.tools[j] = Rendered(modules[i].tools[k])
    /\ (last.op = "find_tool" /\ Owners(modules, last.tool_name) # {}) =>
          last.result = FirstOwner(modules, last.tool_name)
    /\ (/\ HandledMessage(last)
        /\ CallsWithName(last.message)
        /\ Owners(modules, last.message.params.name) # {}
        /\ last.probe = "false") =>
          /\ ~last.escaped
          /\ IsResultResponse(last.response)
          /\ last.response.result.content[1].text =
                ModuleNotAvailable(
                    modules[FirstOwner(modules, last.message.params.name)].name)
    /\ (/\ last.op = "safe_execute_tool"
        /\ last.module.enabled
        /\ last.probe = "false") =>
          /\ ~last.result.raised
          /\ last.result.text = ModuleNotAvailable(last.module.name)

\* C27 (as claimed): in every module status of a server/status answer or
\* of a registry get_status, available implies enabled and
\* dependencies_met, whatever the probe returns at each of its calls.
C27_SnapshotIsConsistent ==
    /\ AnswersStatus(last) =>
          \A i \in 1..Len(last.response.result.modules.modules) :
             LET st == last.response.result.modules.modules[i]
             IN st.available => st.enabled /\ st.dependencies_met
    /\ (last.op = "get_status" /\ ~last.result.raised) =>
          \A i \in 1..Len(last.result.value.modules) :
             LET st == last.result.value.modules[i]
             IN st.available => st.enabled /\ st.dependencies_met

\* Names of the tools in a list.
NamesIn(tools) == { tools[k].name : k \in 1..Len(tools) }

\* C28: in every registry state the names tools/list returns are the names
\* find_tool resolves to a module; a tools/call naming a listed tool is not
\* answered with the not-found-in-any-enabled-module string, and a
\* dispatch that found an owner was for a listed name.
C28_ListedIffResolvable ==
    /\ NamesIn(get_all_tools(modules)) =
          { t \in ToolNames \cup {UnknownTool} : find_tool(modules, t) # 0 }
    /\ ListsTools(last) =>
          NamesIn(last.response.result.tools) =
             { t \in ToolNames \cup {UnknownTool} : find_tool(modules, t) # 0 }
    /\ (/\ HandledMessage(last)
        /\ CallsWithName(last.message)
        /\ last.message.params.name \in NamesIn(get_all_tools(modules))
        /\ ~last.escaped
        /\ IsResultResponse(last.response)) =>
          last.response.result.content[1].text.fmt
             # "tool_not_found_in_any_enabled_module"
    /\ (last.op = "execute_tool" /\ last.result.owner # 0) =>
          last.tool_name \in NamesIn(get_all_tools(modules))

\* C28 witness: tools/list listed "ping", held only as the second tool of
\* the one enabled module, behind a disabled module that holds it too.
C28_Witness ==
    /\ ListsTools(last)
    /\ Len(modules) = 2
    /\ ~modules[1].enabled /\ Defines(modules[1], "ping")
    /\ modules[2].enabled
    /\ find_tool(modules, "ping") = 2
    /\ "ping" \in NamesIn(last.response.result.tools)

\* Sum of tools_count over the module statuses.
RECURSIVE SumToolsCount(_, _)
SumToolsCount(statuses, i) ==
    IF i > Len(statuses) THEN 0
    ELSE statuses[i].tools_count + SumToolsCount(statuses, i + 1)

\* C29 (as claimed): each module status reports the length and the names of
\* get_tools(), so zero tools for a disabled module, and total_tools is the
\* sum of tools_count over the module statuses.
C29_StatusCountsListedTools ==
    (last.op = "get_status" /\ ~last.result.raised) =>
        LET st == last.result.value
        IN /\ \A i \in 1..Len(modules) :
                 /\ st.modules[i].tools_count = Len(get_tools(modules[i]))
                 /\ st.modules[i].tools =
                       [k \in 1..Len(get_tools(modules[i])) |->
                           get_tools(modules[i])[k].name]
                 /\ ~modules[i].enabled => st.modules[i].tools_count = 0
           /\ st.total_tools = SumToolsCount(st.modules, 1)

====
